---- MODULE Spec2Model ----
(***************************************************************************)
(* Model of the MySQL database-access engine (lib/srv/db/mysql engine,     *)
(* second half of src/lib/srv/db/sqlserver/auth.go): HandleConnection,     *)
(* checkAccess, connect, the two relay goroutines and the Cloud SQL        *)
(* semaphore lease.                                                        *)
(*                                                                         *)
(* Every goroutine of a session is a program counter; every call to an     *)
(* external capability (auth, audit, lease service, sockets) is one step   *)
(* whose outcome is chosen by the environment.                             *)
(***************************************************************************)
EXTENDS Integers, Sequences, FiniteSets, TLC

(* ------------------------------ bounds --------------------------------- *)
\* number of concurrent sessions (goroutines running connect)
NumSessions == 2
\* packets a peer (client or backend) sends during one session
MaxPackets == 2
\* last tick of the clock
MaxTime == 2
\* time.Minute, in clock ticks
Minute == 2
\* calls of SwitchWriter.On
MaxOn == 2
\* entries of Config.Admins
MaxAdmins == 3

Sessions == 1..NumSessions
\* the session followed through the whole of HandleConnection: the first
MainSession == CHOOSE s \in Sessions : \A o \in Sessions : s <= o

(* --------------------------- value domains ----------------------------- *)
Kinds == {"generic", "rds", "cloudsql", "azure"}
Users == {"alice", "bob"}
ErrKinds == {"AccessDenied", "LimitExceeded", "Other"}
PacketTypes == {"Query", "ChangeUser", "Quit", "Other"}
Bodies == {"a", "b"}

Nil == [kind |-> "nil", msg |-> ""]
\* an error as the trace package classifies it, with its message
Err(k, m) == [kind |-> k, msg |-> m]
NoLease == [name |-> "", holder |-> 0, expires |-> 0, acquired |-> 0]
NoConfig == [name |-> "", maxLeases |-> 0, expires |-> 0, deadline |-> 0]
\* a decoded packet: its tag, the statement text of a Query, and the bytes it
\* was decoded from
NoPacket == [type |-> "none", query |-> "", raw |-> [type |-> "none", bytes |-> ""]]
Pending == [kind |-> "pending", msg |-> ""]
\* the two I/O failures a relay task can meet: a broken transport, and a
\* write to a connection whose other end (or own socket) is already closed
IoErr == [kind |-> "Other", msg |-> "io"]
ClosedErr == [kind |-> "Other", msg |-> "closed"]
Packets == [type : PacketTypes, bytes : Bodies]
\* a channel: its buffer, whether it is closed, and how often close was called
EmptyCh == [buf |-> <<>>, closed |-> FALSE, closes |-> 0]

VARIABLES
    \* session context (read-only after accept)
    dbKind, tlsInsecure, dbUser,
    \* sessionCtx.Checker: the decision of the session authorizer
    checker,
    \* the kinds of error the external services answer with in this run
    faultKinds,
    \* the packet bodies the peers send in this run
    bodies,
    \* HandleConnection / connect goroutine
    pc, ret, connErr, ctxDone, events, okWritten, loginUser,
    serverConn, closeCount, tlsconn,
    \* lease service and clock
    now, leases, cfg, lease,
    \* audit sink
    audit,
    \* relay goroutines
    ct, st, clientErrCh, serverErrCh, cpkt, spkt, cerr, serr,
    clientRead, serverWritten, serverRead, clientWritten,
    clientSent, serverSent,
    \* the peers' ends of the two transports
    clientPeer, serverPeer,
    \* SwitchWriter (switch.go): the fields on and buffer, the bytes the
    \* underlying writer W has received, the bytes passed to Write so far,
    \* and the number of calls of On
    swOn, swBuffer, swW, swGiven, swOnCalls,
    \* BreakReader (switch.go): the fields on, closed and remaining; the
    \* underlying reader R; the goroutine started by NewBreakReader; the Read
    \* call in progress and the goroutine it starts; what the last Read
    \* call returned
    brOn, brClosed, brRemaining, brR, brBg, brRead, brHelper, brResult,
    \* CheckExternal (review.go): its arguments author and reviews, the
    \* configured list Config.Admins, and the error it returned
    author, admins, reviews, externalErr

writerVars == <<swOn, swBuffer, swW, swGiven, swOnCalls>>
readerVars == <<brOn, brClosed, brRemaining, brR, brBg, brRead, brHelper, brResult>>
switchVars == <<writerVars, readerVars>>
reviewVars == <<author, admins, reviews, externalErr>>
\* what no step of the engine changes: the session context, the run's
\* packet and error domains, the state of the stream switches and of the
\* review check
sessVars == <<dbKind, tlsInsecure, dbUser, checker, faultKinds, bodies, switchVars,
              reviewVars>>

\* the packets a client can send: a statement or an inert command with any
\* body, a re-authentication request, a termination request
ClientPackets ==
    {p \in Packets : p.bytes \in bodies /\ (p.type \in {"ChangeUser", "Quit"} => p.bytes = "a")}

\* the errors an external call (auth, lease service, dial) can return
ProviderErrors == {Err(k, "provider") : k \in faultKinds}
mainVars == <<pc, ret, connErr, events, okWritten, loginUser, serverConn, closeCount, tlsconn>>
leaseVars == <<now, leases, cfg, lease>>
relayVars == <<ct, st, clientErrCh, serverErrCh, cpkt, spkt, cerr, serr,
               clientRead, serverWritten, serverRead, clientWritten,
               clientSent, serverSent, clientPeer, serverPeer>>
vars == <<sessVars, mainVars, ctxDone, leaseVars, audit, relayVars>>

DatabaseName == "db"
AzureName == "my-server"
\* defaults.DatabaseConnectTimeout
DatabaseConnectTimeout == Minute

Set(f, s, v) == [f EXCEPT ![s] = v]
Log(f, s, e) == [f EXCEPT ![s] = Append(@, e)]

(* ------------------------------ Init ----------------------------------- *)
\* no Read call is in progress
NoRead == [pc |-> "idle", cap |-> 0, on |-> FALSE,
           startOff |-> FALSE, startClosed |-> FALSE, onSeen |-> FALSE]
\* no Read call has returned
NoResult == [data |-> <<>>, fromIn |-> FALSE,
             startOff |-> FALSE, startClosed |-> FALSE, onSeen |-> FALSE]

\* switch.go:40-69: NewBreakReader; the goroutine it starts is at its first
\* read of the underlying reader
NewBreakReader ==
    /\ brOn = TRUE
    /\ brClosed = FALSE
    /\ brRemaining = <<>>
    /\ brR = [count |-> 0, failed |-> FALSE]
    /\ brBg = [pc |-> "read", buf |-> <<>>]
    /\ brRead = NoRead
    /\ brHelper = [pc |-> "none", val |-> FALSE]
    /\ brResult = NoResult

\* switch.go:148-153: NewSwitchWriter
NewSwitchWriter ==
    /\ swOn = TRUE
    /\ swBuffer = <<>>
    /\ swW = <<>>
    /\ swGiven = <<>>
    /\ swOnCalls = 0

\* everything but the session contexts and the program counters
InitComponents ==
    /\ ret = [s \in Sessions |-> Pending]
    /\ connErr = [s \in Sessions |-> Nil]
    /\ ctxDone = [s \in Sessions |-> FALSE]
    /\ events = [s \in Sessions |-> <<>>]
    /\ okWritten = [s \in Sessions |-> FALSE]
    /\ loginUser = [s \in Sessions |-> ""]
    /\ serverConn = [s \in Sessions |-> "none"]
    /\ closeCount = [s \in Sessions |-> 0]
    /\ tlsconn = [s \in Sessions |-> "none"]
    /\ now = 0
    /\ leases = {}
    /\ cfg = [s \in Sessions |-> NoConfig]
    /\ lease = [s \in Sessions |-> NoLease]
    /\ audit = [s \in Sessions |-> <<>>]
    /\ ct = [s \in Sessions |-> "none"]
    /\ st = [s \in Sessions |-> "none"]
    /\ clientErrCh = [s \in Sessions |-> EmptyCh]
    /\ serverErrCh = [s \in Sessions |-> EmptyCh]
    /\ cpkt = [s \in Sessions |-> NoPacket]
    /\ spkt = [s \in Sessions |-> ""]
    /\ cerr = [s \in Sessions |-> Nil]
    /\ serr = [s \in Sessions |-> Nil]
    /\ clientRead = [s \in Sessions |-> <<>>]
    /\ serverWritten = [s \in Sessions |-> <<>>]
    /\ serverRead = [s \in Sessions |-> <<>>]
    /\ clientWritten = [s \in Sessions |-> <<>>]
    /\ clientSent = [s \in Sessions |-> 0]
    /\ serverSent = [s \in Sessions |-> 0]
    /\ clientPeer = [s \in Sessions |-> "open"]
    /\ serverPeer = [s \in Sessions |-> "open"]
    /\ NewSwitchWriter
    /\ NewBreakReader

\* CheckExternal has not been called
NoCheckExternal ==
    /\ author = ""
    /\ admins = <<>>
    /\ reviews = <<>>
    /\ externalErr = Pending

InitRest == InitComponents /\ NoCheckExternal

\* one session enters HandleConnection, for any backend kind
Init ==
    /\ \E k \in Kinds : dbKind = [s \in Sessions |-> k]
    /\ \E b \in BOOLEAN : tlsInsecure = [s \in Sessions |-> b]
    /\ dbUser = [s \in Sessions |-> "alice"]
    /\ \E c \in {"allow", "deny"} : checker = [s \in Sessions |-> c]
    /\ faultKinds = ErrKinds
    /\ bodies = {"a"}
    /\ pc = [s \in Sessions |-> IF s = MainSession THEN "checkAccess" ELSE "idle"]
    /\ InitRest

\* every session has passed authorization and enters connect for the same
\* Cloud SQL database
InitLease ==
    /\ dbKind = [s \in Sessions |-> "cloudsql"]
    /\ \E b \in BOOLEAN : tlsInsecure = [s \in Sessions |-> b]
    /\ dbUser \in {u \in [Sessions -> Users] : u[MainSession] = "alice"}
    /\ checker = [s \in Sessions |-> "allow"]
    /\ faultKinds = {"Other"}
    /\ bodies = {"a"}
    /\ pc = [s \in Sessions |-> "GetTLSConfig"]
    /\ InitRest

(* --------------------------- checkAccess ------------------------------- *)
DenialError == Err("AccessDenied", "denied")

\* a denial that is audited but does not end HandleConnection
afterCheckAccess_NoReturn(decision) == "GetTLSConfig"

\* auth.go:185-188, 247-251: a denial ends HandleConnection, else connect is
\* next
afterCheckAccess(decision) == IF decision = "deny" THEN "done" ELSE "GetTLSConfig"

\* auth.go:228-252, with the return of its result at auth.go:185-188
checkAccess(s) ==
    /\ pc[s] = "checkAccess"
    /\ \/ \E e \in ProviderErrors :
            /\ events' = Log(events, s, "GetAuthPreference")
            /\ ret' = Set(ret, s, e)
            /\ pc' = Set(pc, s, "done")
            /\ UNCHANGED audit
       \/ /\ events' = [events EXCEPT ![s] = @ \o <<"GetAuthPreference", "CheckAccess">>]
          /\ IF checker[s] = "deny"
             THEN /\ audit' = Log(audit, s, [type |-> "SessionStart", err |-> DenialError,
                                             query |-> ""])
                  /\ ret' = Set(ret, s, DenialError)
             ELSE UNCHANGED <<ret, audit>>
          /\ pc' = Set(pc, s, afterCheckAccess(checker[s]))
    /\ UNCHANGED <<sessVars, connErr, okWritten, loginUser, serverConn, closeCount, tlsconn,
                   ctxDone, leaseVars, relayVars>>

(* ------------------------------ connect -------------------------------- *)
\* a failed credential call after which connect goes on to the backend
ConnectFails_Continue(s, e) ==
    /\ connErr' = Set(connErr, s, e)
    /\ pc' = Set(pc, s, "Connect")

\* connect returns to HandleConnection with error e
ConnectFails(s, e) ==
    /\ connErr' = Set(connErr, s, e)
    /\ pc' = Set(pc, s, "connectReturned")

\* connect fails after the lease release has been deferred
ConnectFailsLeased(s, e) ==
    /\ connErr' = Set(connErr, s, e)
    /\ pc' = Set(pc, s, "CancelLease")

\* auth.go:256-267: e.Auth.GetTLSConfig, then the switch on the backend kind
GetTLSConfig(s) ==
    /\ pc[s] = "GetTLSConfig"
    /\ events' = Log(events, s, "GetTLSConfig")
    /\ \/ \E e \in ProviderErrors : ConnectFails(s, e) /\ UNCHANGED loginUser
       \/ /\ loginUser' = Set(loginUser, s, dbUser[s])
          /\ pc' = Set(pc, s, CASE dbKind[s] = "rds" -> "GetRDSAuthToken"
                                [] dbKind[s] = "cloudsql" -> "makeConfig"
                                [] dbKind[s] = "azure" -> "GetAzureAccessToken"
                                [] OTHER -> "Connect")
          /\ UNCHANGED connErr
    /\ UNCHANGED <<sessVars, ret, okWritten, serverConn, closeCount, tlsconn,
                   ctxDone, leaseVars, audit, relayVars>>

\* auth.go:268-272
GetRDSAuthToken(s) ==
    /\ pc[s] = "GetRDSAuthToken"
    /\ events' = Log(events, s, "GetRDSAuthToken")
    /\ \/ \E e \in ProviderErrors : ConnectFails(s, e)
       \/ pc' = Set(pc, s, "Connect") /\ UNCHANGED connErr
    /\ UNCHANGED <<sessVars, ret, okWritten, loginUser, serverConn, closeCount, tlsconn,
                   ctxDone, leaseVars, audit, relayVars>>

\* the server name put before the user
azureUser_Reversed(user, name) == name \o "@" \o user

\* auth.go:324: fmt.Sprintf("%v@%v", user, sessionCtx.Database.GetAzure().Name)
azureUser(user, name) == user \o "@" \o name

\* auth.go:317-324
GetAzureAccessToken(s) ==
    /\ pc[s] = "GetAzureAccessToken"
    /\ events' = Log(events, s, "GetAzureAccessToken")
    /\ \/ \E e \in ProviderErrors : ConnectFails(s, e) /\ UNCHANGED loginUser
       \/ /\ loginUser' = Set(loginUser, s, azureUser(loginUser[s], AzureName))
          /\ pc' = Set(pc, s, "Connect")
          /\ UNCHANGED connErr
    /\ UNCHANGED <<sessVars, ret, okWritten, serverConn, closeCount, tlsconn,
                   ctxDone, leaseVars, audit, relayVars>>

\* a semaphore that admits two holders
makeAcquireSemaphoreConfig_TwoLeases(s) ==
    [name |-> DatabaseName \o "-" \o dbUser[s],
     maxLeases |-> 2,
     expires |-> now + Minute]

\* a semaphore named after the session instead of the database user
makeAcquireSemaphoreConfig_PerSession(s) ==
    [name |-> DatabaseName \o "-" \o ToString(s),
     maxLeases |-> 1,
     expires |-> now + Minute]

\* auth.go:434-454: the request of the semaphore for this session
makeAcquireSemaphoreConfig(s) ==
    [name |-> DatabaseName \o "-" \o dbUser[s],
     maxLeases |-> 1,
     expires |-> now + Minute]

\* auth.go:278-280: the retry context and the semaphore request are built
\* once, before the first attempt
makeConfig(s) ==
    /\ pc[s] = "makeConfig"
    /\ cfg' = Set(cfg, s, [name |-> makeAcquireSemaphoreConfig(s).name,
                           maxLeases |-> makeAcquireSemaphoreConfig(s).maxLeases,
                           expires |-> makeAcquireSemaphoreConfig(s).expires,
                           deadline |-> now + DatabaseConnectTimeout])
    /\ pc' = Set(pc, s, "Acquire")
    /\ UNCHANGED <<sessVars, ret, connErr, events, okWritten, loginUser, serverConn,
                   closeCount, tlsconn, ctxDone, now, leases, lease, audit, relayVars>>

\* the lease service: leases of a semaphore that have not expired
LiveLeases(name) == {l \in leases : l.name = name /\ l.expires > now}

\* the lease service grants a request while fewer than maxLeases leases of
\* the semaphore are live, and never grants a lease that has already expired
CanAcquire(req) ==
    /\ Cardinality(LiveLeases(req.name)) < req.maxLeases
    /\ req.expires > now

\* a lease granted with the time of the grant as its expiry
grant_Stale(req, s) ==
    [name |-> req.name, holder |-> s, expires |-> now, acquired |-> now]

\* the lease service: the lease granted on a request carries the expiry of
\* the request; the time of the grant is kept with it
grant(req, s) ==
    [name |-> req.name, holder |-> s, expires |-> req.expires, acquired |-> now]

\* auth.go:280-283: services.AcquireSemaphoreWithRetry. A refused attempt is
\* retried (no state changes); the call fails once the retry context is done.
AcquireSemaphoreWithRetry(s) ==
    /\ pc[s] = "Acquire"
    /\ \/ /\ now < cfg[s].deadline
          /\ ~ctxDone[s]
          /\ CanAcquire(cfg[s])
          /\ events' = [events EXCEPT ![s] = @ \o <<"AcquireSemaphore", "LeaseAcquired">>]
          /\ LET l == grant(cfg[s], s)
             IN /\ leases' = leases \cup {l}
                /\ lease' = Set(lease, s, l)
          /\ pc' = Set(pc, s, "GetCloudSQLPassword")
          /\ UNCHANGED connErr
          /\ UNCHANGED cfg
       \/ /\ now >= cfg[s].deadline \/ ctxDone[s]
          /\ events' = Log(events, s, "AcquireSemaphore")
          /\ \E e \in ProviderErrors : ConnectFails(s, e)
          /\ cfg' = Set(cfg, s, NoConfig)
          /\ UNCHANGED <<leases, lease>>
    /\ UNCHANGED <<sessVars, ret, okWritten, loginUser, serverConn, closeCount, tlsconn,
                   ctxDone, now, audit, relayVars>>

\* auth.go:293: the call of e.Auth.GetCloudSQLPassword, which resets the
\* password of the database user
GetCloudSQLPassword(s) ==
    /\ pc[s] = "GetCloudSQLPassword"
    /\ events' = Log(events, s, "GetCloudSQLPassword")
    /\ pc' = Set(pc, s, "PasswordWait")
    /\ UNCHANGED <<sessVars, ret, connErr, okWritten, loginUser, serverConn, closeCount,
                   tlsconn, ctxDone, leaseVars, audit, relayVars>>

\* auth.go:293-301: GetCloudSQLPassword returns
PasswordReturn(s) ==
    /\ pc[s] = "PasswordWait"
    /\ \/ \E e \in ProviderErrors : ConnectFailsLeased(s, e)
       \/ /\ pc' = Set(pc, s, IF tlsInsecure[s] THEN "Connect" ELSE "tlsDial")
          /\ UNCHANGED connErr
    /\ UNCHANGED <<sessVars, ret, events, okWritten, loginUser, serverConn, closeCount,
                   tlsconn, ctxDone, leaseVars, audit, relayVars>>

\* auth.go:301-316: the TLS connection to the Cloud SQL proxy port
tlsDial(s) ==
    /\ pc[s] = "tlsDial"
    /\ events' = Log(events, s, "tlsDial")
    /\ \/ (\E e \in ProviderErrors : ConnectFailsLeased(s, e)) /\ UNCHANGED tlsconn
       \/ /\ tlsconn' = Set(tlsconn, s, "open")
          /\ pc' = Set(pc, s, "Connect")
          /\ UNCHANGED connErr
    /\ UNCHANGED <<sessVars, ret, okWritten, loginUser, serverConn, closeCount,
                   ctxDone, leaseVars, audit, relayVars>>

\* auth.go:328: client.Connect is called
Connect(s) ==
    /\ pc[s] = "Connect"
    /\ events' = Log(events, s, "Connect")
    /\ pc' = Set(pc, s, "Handshake")
    /\ UNCHANGED <<sessVars, ret, connErr, okWritten, loginUser, serverConn, closeCount,
                   tlsconn, ctxDone, leaseVars, audit, relayVars>>

\* the lease left to expire
AfterConnect_NoRelease(s) == "connectReturned"

\* where connect goes after client.Connect: the deferred lease release when
\* a lease was acquired, else back to HandleConnection
AfterConnect(s) == IF lease[s] # NoLease THEN "CancelLease" ELSE "connectReturned"

\* auth.go:333-347: the error connect returns for a failed client.Connect
connectError(s, e) ==
    IF e.kind = "AccessDenied" /\ dbKind[s] = "rds"
    THEN Err("AccessDenied", "iam policy")
    ELSE e

\* auth.go:328-348: client.Connect returns. On success the client option of
\* auth.go:313-316 has put the TLS socket in place of the client's own. On
\* failure the option has not run (the dial failed) or the connection it was
\* applied to is dropped, closed by the client library or not; connect itself
\* (auth.go:333-346) does not touch the TLS socket.
Handshake(s) ==
    /\ pc[s] = "Handshake"
    /\ \/ /\ serverConn' = Set(serverConn, s, "open")
          /\ tlsconn' = Set(tlsconn, s, IF tlsconn[s] = "open" THEN "adopted" ELSE tlsconn[s])
          /\ events' = Log(events, s, "Connected")
          /\ UNCHANGED connErr
       \/ /\ \E e \in ProviderErrors : connErr' = Set(connErr, s, connectError(s, e))
          /\ \/ UNCHANGED tlsconn
             \/ tlsconn[s] = "open" /\ tlsconn' = Set(tlsconn, s, "closed")
          /\ UNCHANGED <<serverConn, events>>
    /\ pc' = Set(pc, s, AfterConnect(s))
    /\ UNCHANGED <<sessVars, ret, okWritten, loginUser, closeCount,
                   ctxDone, leaseVars, audit, relayVars>>

\* auth.go:287-292: the deferred e.AuthClient.CancelSemaphoreLease; its
\* error is logged only
CancelSemaphoreLease(s) ==
    /\ pc[s] = "CancelLease"
    /\ events' = Log(events, s, "CancelSemaphoreLease")
    /\ \/ leases' = leases \ {lease[s]}
       \/ UNCHANGED leases
    /\ cfg' = Set(cfg, s, NoConfig)
    /\ lease' = Set(lease, s, NoLease)
    /\ pc' = Set(pc, s, "connectReturned")
    /\ UNCHANGED <<sessVars, ret, connErr, okWritten, loginUser, serverConn, closeCount,
                   tlsconn, ctxDone, now, audit, relayVars>>

\* a lease is live from its acquisition to its release or expiry
Holding(s) == \E l \in leases : l.holder = s /\ l.expires > now

\* a session that has yet to ask for the semaphore: it will read the clock
ClockReader(s) ==
    /\ dbKind[s] = "cloudsql"
    /\ pc[s] \in {"checkAccess", "GetTLSConfig", "makeConfig", "Acquire"}

\* the clock is read when a semaphore request is built and attempted, against
\* the expiry of the live leases and the deadline of the retry loop; once no
\* session is left to ask, or before there is anything to compare with, the
\* passing of time changes nothing
TimeObserved ==
    /\ \E s \in Sessions : ClockReader(s)
    /\ leases # {} \/ \E s \in Sessions : pc[s] = "Acquire"

\* the clock advances; the lease service drops the leases that expire
Tick ==
    /\ now < MaxTime
    /\ TimeObserved
    /\ now' = now + 1
    /\ leases' = {l \in leases : l.expires > now + 1}
    /\ UNCHANGED <<sessVars, mainVars, ctxDone, cfg, lease, audit, relayVars>>

\* the caller cancels the context of the session. The engine looks at the
\* context in the retry loop of the semaphore and in the select; a cancel at
\* any other moment is seen as a cancel at the next of these.
CtxCancel(s) ==
    /\ pc[s] \in {"Acquire", "select"}
    /\ ~ctxDone[s]
    /\ ctxDone' = Set(ctxDone, s, TRUE)
    /\ UNCHANGED <<sessVars, mainVars, leaseVars, audit, relayVars>>

\* the Cloud SQL path of connect
ConnectStep(s) ==
    \/ GetTLSConfig(s)
    \/ makeConfig(s)
    \/ AcquireSemaphoreWithRetry(s)
    \/ GetCloudSQLPassword(s)
    \/ PasswordReturn(s)
    \/ tlsDial(s)
    \/ Connect(s)
    \/ Handshake(s)
    \/ CancelSemaphoreLease(s)

NextLease ==
    \/ \E s \in Sessions : ConnectStep(s)
    \/ Tick

\* concurrent sessions running connect for one Cloud SQL database
SpecLease == InitLease /\ [][NextLease]_vars

(* -------------------------- HandleConnection --------------------------- *)
\* the error of connect returned as it is
connectFailure_Raw(e) == e

\* auth.go:190-196: the error HandleConnection returns for a failed connect
connectFailure(e) ==
    IF e.kind = "LimitExceeded"
    THEN Err("LimitExceeded", "try again later")
    ELSE e

\* HandleConnection going on to the OK reply whatever connect returned
connectReturned_IgnoreError(s) ==
    /\ pc[s] = "connectReturned"
    /\ pc' = Set(pc, s, "WriteOK")
    /\ UNCHANGED <<sessVars, ret, connErr, events, okWritten, loginUser, serverConn, closeCount,
                   tlsconn, ctxDone, leaseVars, audit, relayVars>>

\* auth.go:190-202: connect has returned; on success the close of the
\* backend connection is deferred
connectReturned(s) ==
    /\ pc[s] = "connectReturned"
    /\ IF connErr[s] # Nil
       THEN /\ ret' = Set(ret, s, connectFailure(connErr[s]))
            /\ pc' = Set(pc, s, "done")
       ELSE /\ pc' = Set(pc, s, "WriteOK")
            /\ UNCHANGED ret
    /\ UNCHANGED <<sessVars, connErr, events, okWritten, loginUser, serverConn, closeCount,
                   tlsconn, ctxDone, leaseVars, audit, relayVars>>

\* a failed OK reply returning without the deferred close
afterWriteOKError_NoClose == "done"

\* auth.go:197-208: a failed OK reply returns through the deferred close
afterWriteOKError == "Close"

\* auth.go:205-208: e.proxyConn.WriteOK(nil)
WriteOK(s) ==
    /\ pc[s] = "WriteOK"
    /\ \/ /\ okWritten' = Set(okWritten, s, TRUE)
          /\ events' = Log(events, s, "WriteOK")
          /\ pc' = Set(pc, s, "OnSessionStart")
          /\ UNCHANGED ret
       \/ /\ ret' = Set(ret, s, IoErr)
          /\ pc' = Set(pc, s, afterWriteOKError)
          /\ UNCHANGED <<okWritten, events>>
    /\ UNCHANGED <<sessVars, connErr, loginUser, serverConn, closeCount, tlsconn,
                   ctxDone, leaseVars, audit, relayVars>>

\* the relay starting without the success session start event
OnSessionStart_Skip(s) ==
    /\ pc[s] = "OnSessionStart"
    /\ pc' = Set(pc, s, "goClient")
    /\ UNCHANGED <<sessVars, ret, connErr, events, okWritten, loginUser, serverConn,
                   closeCount, tlsconn, ctxDone, leaseVars, audit, relayVars>>

\* auth.go:209-210: the success session start event; the session end event
\* is deferred
OnSessionStart(s) ==
    /\ pc[s] = "OnSessionStart"
    /\ audit' = Log(audit, s, [type |-> "SessionStart", err |-> Nil, query |-> ""])
    /\ pc' = Set(pc, s, "goClient")
    /\ UNCHANGED <<sessVars, ret, connErr, events, okWritten, loginUser, serverConn,
                   closeCount, tlsconn, ctxDone, leaseVars, relayVars>>

\* auth.go:212-214: go e.receiveFromClient
goClient(s) ==
    /\ pc[s] = "goClient"
    /\ ct' = Set(ct, s, "read")
    /\ pc' = Set(pc, s, "goServer")
    /\ UNCHANGED <<sessVars, ret, connErr, events, okWritten, loginUser, serverConn,
                   closeCount, tlsconn, ctxDone, leaseVars, audit,
                   st, clientErrCh, serverErrCh, cpkt, spkt, cerr, serr,
                   clientRead, serverWritten, serverRead, clientWritten,
                   clientSent, serverSent, clientPeer, serverPeer>>

\* auth.go:215: go e.receiveFromServer
goServer(s) ==
    /\ pc[s] = "goServer"
    /\ st' = Set(st, s, "read")
    /\ pc' = Set(pc, s, "select")
    /\ UNCHANGED <<sessVars, ret, connErr, events, okWritten, loginUser, serverConn,
                   closeCount, tlsconn, ctxDone, leaseVars, audit,
                   ct, clientErrCh, serverErrCh, cpkt, spkt, cerr, serr,
                   clientRead, serverWritten, serverRead, clientWritten,
                   clientSent, serverSent, clientPeer, serverPeer>>

\* a receive from the channel can proceed: a value is buffered or the
\* channel is closed
Ready(ch) == ch.buf # <<>> \/ ch.closed
\* the channel after a receive
Recv(ch) == [ch EXCEPT !.buf = IF @ = <<>> THEN @ ELSE Tail(@)]

\* the value a receive yields: the buffered value, nil from a closed channel
Received(ch) == IF ch.buf # <<>> THEN Head(ch.buf) ELSE Nil

\* HandleConnection returning the error a relay task reported
selectResult_Propagate(err) == err

\* auth.go:217-224: the received error is logged, the result is nil
selectResult(err) == Nil

\* a select with a default case: it does not wait for a signal
select_Default(s) ==
    /\ pc[s] = "select"
    /\ \/ /\ Ready(clientErrCh[s])
          /\ clientErrCh' = Set(clientErrCh, s, Recv(clientErrCh[s]))
          /\ ret' = Set(ret, s, selectResult(Received(clientErrCh[s])))
          /\ UNCHANGED serverErrCh
       \/ /\ Ready(serverErrCh[s])
          /\ serverErrCh' = Set(serverErrCh, s, Recv(serverErrCh[s]))
          /\ ret' = Set(ret, s, selectResult(Received(serverErrCh[s])))
          /\ UNCHANGED clientErrCh
       \/ /\ ctxDone[s]
          /\ ret' = Set(ret, s, selectResult(Nil))
          /\ UNCHANGED <<clientErrCh, serverErrCh>>
       \/ /\ ret' = Set(ret, s, selectResult(Nil))
          /\ UNCHANGED <<clientErrCh, serverErrCh>>
    /\ pc' = Set(pc, s, "OnSessionEnd")
    /\ UNCHANGED <<sessVars, connErr, events, okWritten, loginUser, serverConn,
                   closeCount, tlsconn, ctxDone, leaseVars, audit,
                   ct, st, cpkt, spkt, cerr, serr,
                   clientRead, serverWritten, serverRead, clientWritten,
                   clientSent, serverSent, clientPeer, serverPeer>>

\* a select that waits for both relay tasks
select_WaitBoth(s) ==
    /\ pc[s] = "select"
    /\ ctxDone[s] \/ (Ready(clientErrCh[s]) /\ Ready(serverErrCh[s]))
    /\ \/ /\ Ready(clientErrCh[s])
          /\ clientErrCh' = Set(clientErrCh, s, Recv(clientErrCh[s]))
          /\ ret' = Set(ret, s, selectResult(Received(clientErrCh[s])))
          /\ UNCHANGED serverErrCh
       \/ /\ Ready(serverErrCh[s])
          /\ serverErrCh' = Set(serverErrCh, s, Recv(serverErrCh[s]))
          /\ ret' = Set(ret, s, selectResult(Received(serverErrCh[s])))
          /\ UNCHANGED clientErrCh
       \/ /\ ctxDone[s]
          /\ ret' = Set(ret, s, selectResult(Nil))
          /\ UNCHANGED <<clientErrCh, serverErrCh>>
    /\ pc' = Set(pc, s, "OnSessionEnd")
    /\ UNCHANGED <<sessVars, connErr, events, okWritten, loginUser, serverConn,
                   closeCount, tlsconn, ctxDone, leaseVars, audit,
                   ct, st, cpkt, spkt, cerr, serr,
                   clientRead, serverWritten, serverRead, clientWritten,
                   clientSent, serverSent, clientPeer, serverPeer>>

\* auth.go:216-224: the select, then return nil
select(s) ==
    /\ pc[s] = "select"
    /\ \/ /\ Ready(clientErrCh[s])
          /\ clientErrCh' = Set(clientErrCh, s, Recv(clientErrCh[s]))
          /\ ret' = Set(ret, s, selectResult(Received(clientErrCh[s])))
          /\ UNCHANGED serverErrCh
       \/ /\ Ready(serverErrCh[s])
          /\ serverErrCh' = Set(serverErrCh, s, Recv(serverErrCh[s]))
          /\ ret' = Set(ret, s, selectResult(Received(serverErrCh[s])))
          /\ UNCHANGED clientErrCh
       \/ /\ ctxDone[s]
          /\ ret' = Set(ret, s, selectResult(Nil))
          /\ UNCHANGED <<clientErrCh, serverErrCh>>
    /\ pc' = Set(pc, s, "OnSessionEnd")
    /\ UNCHANGED <<sessVars, connErr, events, okWritten, loginUser, serverConn,
                   closeCount, tlsconn, ctxDone, leaseVars, audit,
                   ct, st, cpkt, spkt, cerr, serr,
                   clientRead, serverWritten, serverRead, clientWritten,
                   clientSent, serverSent, clientPeer, serverPeer>>

\* a return that skips the session-end event
OnSessionEnd_Skip(s) ==
    /\ pc[s] = "OnSessionEnd"
    /\ pc' = Set(pc, s, "Close")
    /\ UNCHANGED <<sessVars, ret, connErr, events, okWritten, loginUser, serverConn,
                   closeCount, tlsconn, ctxDone, leaseVars, audit, relayVars>>

\* auth.go:210: the deferred e.Audit.OnSessionEnd
OnSessionEnd(s) ==
    /\ pc[s] = "OnSessionEnd"
    /\ audit' = Log(audit, s, [type |-> "SessionEnd", err |-> Nil, query |-> ""])
    /\ pc' = Set(pc, s, "Close")
    /\ UNCHANGED <<sessVars, ret, connErr, events, okWritten, loginUser, serverConn,
                   closeCount, tlsconn, ctxDone, leaseVars, relayVars>>

\* a return that leaves the backend connection open
Close_Leak(s) ==
    /\ pc[s] = "Close"
    /\ closeCount' = Set(closeCount, s, closeCount[s] + 1)
    /\ pc' = Set(pc, s, "done")
    /\ UNCHANGED <<sessVars, ret, connErr, events, okWritten, loginUser, serverConn,
                   tlsconn, ctxDone, leaseVars, audit, relayVars>>

\* auth.go:197-202: the deferred serverConn.Close(); HandleConnection
\* returns
Close(s) ==
    /\ pc[s] = "Close"
    /\ serverConn' = Set(serverConn, s, "closed")
    /\ closeCount' = Set(closeCount, s, closeCount[s] + 1)
    /\ pc' = Set(pc, s, "done")
    /\ UNCHANGED <<sessVars, ret, connErr, events, okWritten, loginUser,
                   tlsconn, ctxDone, leaseVars, audit, relayVars>>

(* ---------------------------- relay tasks ------------------------------ *)
relayRest == <<sessVars, mainVars, ctxDone, leaseVars>>

\* protocol.ParsePacket: decodes the unit read from the client; the packet
\* keeps the bytes it was decoded from
ParsePacket(w) ==
    [type |-> w.type, query |-> IF w.type = "Query" THEN w.bytes ELSE "", raw |-> w]

\* a packet encoded again from its decoded fields
Bytes_FromFields(p) == [type |-> p.type, bytes |-> p.query]

\* packet.Bytes(): the bytes the packet was decoded from
Bytes(p) == p.raw

\* a statement forwarded without the audit event
classify_NoAudit(p) ==
    CASE p.type = "Query" -> "write"
      [] p.type = "ChangeUser" -> "close"
      [] p.type = "Quit" -> "close"
      [] OTHER -> "write"

\* a termination request forwarded like any other command
classify_ForwardQuit(p) ==
    CASE p.type = "Query" -> "OnQuery"
      [] p.type = "ChangeUser" -> "close"
      [] OTHER -> "write"

\* auth.go:374-390: where the switch on the packet type sends the task
classify(p) ==
    CASE p.type = "Query" -> "OnQuery"
      [] p.type = "ChangeUser" -> "close"
      [] p.type = "Quit" -> "close"
      [] OTHER -> "write"

\* every failed read reported, a normal close included
afterReadError_NoOKCheck(ok) == "send"

\* every failed read taken for a normal close
afterReadError_Swallow(ok) == "close"

\* auth.go:365-373: where a failed read sends the task. utils.IsOKNetworkError
\* holds of EOF and of a read from a closed connection.
afterReadError(ok) == IF ok THEN "close" ELSE "send"

\* auth.go:364-390: protocol.ParsePacket(clientConn) returns
ClientRead(s) ==
    /\ ct[s] = "read"
    /\ \/ /\ clientPeer[s] = "open"
          /\ Len(clientRead[s]) < MaxPackets
          /\ \E p \in ClientPackets :
                /\ clientRead' = Log(clientRead, s, p)
                /\ cpkt' = Set(cpkt, s, ParsePacket(p))
                /\ ct' = Set(ct, s, classify(ParsePacket(p)))
          /\ UNCHANGED <<cerr, clientPeer>>
       \/ /\ clientPeer' = Set(clientPeer, s, "closed")
          /\ ct' = Set(ct, s, afterReadError(TRUE))
          /\ UNCHANGED <<clientRead, cpkt, cerr>>
       \/ /\ clientPeer[s] = "open"
          /\ cerr' = Set(cerr, s, IoErr)
          /\ ct' = Set(ct, s, afterReadError(FALSE))
          /\ UNCHANGED <<clientRead, cpkt, clientPeer>>
    /\ UNCHANGED <<relayRest, audit, st, clientErrCh, serverErrCh, spkt, serr,
                   serverWritten, serverRead, clientWritten, clientSent, serverSent,
                   serverPeer>>

\* auth.go:375-376: e.Audit.OnQuery
OnQuery(s) ==
    /\ ct[s] = "OnQuery"
    /\ audit' = Log(audit, s, [type |-> "Query", err |-> Nil, query |-> cpkt[s].query])
    /\ ct' = Set(ct, s, "write")
    /\ UNCHANGED <<relayRest, st, clientErrCh, serverErrCh, cpkt, spkt, cerr, serr,
                   clientRead, serverWritten, serverRead, clientWritten,
                   clientSent, serverSent, clientPeer, serverPeer>>

\* auth.go:391-396: protocol.WritePacket(packet.Bytes(), serverConn). A write
\* to the closed socket fails; a write to a socket whose peer has closed or
\* whose transport breaks can fail.
ClientWrite(s) ==
    /\ ct[s] = "write"
    /\ \/ /\ serverConn[s] = "open"
          /\ serverWritten' = Log(serverWritten, s, Bytes(cpkt[s]))
          /\ ct' = Set(ct, s, "read")
          /\ UNCHANGED cerr
       \/ /\ cerr' = Set(cerr, s, IF serverConn[s] = "open" /\ serverPeer[s] = "open"
                                  THEN IoErr ELSE ClosedErr)
          /\ ct' = Set(ct, s, "send")
          /\ UNCHANGED serverWritten
    /\ UNCHANGED <<relayRest, audit, st, clientErrCh, serverErrCh, cpkt, spkt, serr,
                   clientRead, serverRead, clientWritten, clientSent, serverSent,
                   clientPeer, serverPeer>>

\* a channel made without a buffer, when no receiver is waiting
CanSend_NoBuffer(ch) == Len(ch.buf) < 0

\* a send on a channel of capacity 1 proceeds while the buffer is empty
CanSend(ch) == Len(ch.buf) < 1

\* auth.go:371, 394: clientErrCh <- err
ClientSend(s) ==
    /\ ct[s] = "send"
    /\ CanSend(clientErrCh[s])
    /\ clientErrCh' = Set(clientErrCh, s, [clientErrCh[s] EXCEPT !.buf = Append(@, cerr[s])])
    /\ clientSent' = Set(clientSent, s, clientSent[s] + 1)
    /\ ct' = Set(ct, s, "close")
    /\ UNCHANGED <<relayRest, audit, st, serverErrCh, cpkt, spkt, cerr, serr,
                   clientRead, serverWritten, serverRead, clientWritten, serverSent,
                   clientPeer, serverPeer>>

\* auth.go:359-362: the deferred close(clientErrCh)
ClientClose(s) ==
    /\ ct[s] = "close"
    /\ clientErrCh' = Set(clientErrCh, s, [clientErrCh[s] EXCEPT !.closed = TRUE, !.closes = @ + 1])
    /\ ct' = Set(ct, s, "done")
    /\ UNCHANGED <<relayRest, audit, st, serverErrCh, cpkt, spkt, cerr, serr,
                   clientRead, serverWritten, serverRead, clientWritten,
                   clientSent, serverSent, clientPeer, serverPeer>>

\* auth.go:413-422: protocol.ReadPacket(serverConn) returns
ServerRead(s) ==
    /\ st[s] = "read"
    /\ \/ /\ serverConn[s] = "open" /\ serverPeer[s] = "open"
          /\ Len(serverRead[s]) < MaxPackets
          /\ \E b \in bodies :
                /\ serverRead' = Log(serverRead, s, b)
                /\ spkt' = Set(spkt, s, b)
          /\ st' = Set(st, s, "write")
          /\ UNCHANGED <<serr, serverPeer>>
       \/ /\ serverConn[s] = "open"
          /\ serverPeer' = Set(serverPeer, s, "closed")
          /\ st' = Set(st, s, afterReadError(TRUE))
          /\ UNCHANGED <<serverRead, spkt, serr>>
       \/ /\ serverConn[s] = "closed"
          /\ st' = Set(st, s, afterReadError(TRUE))
          /\ UNCHANGED <<serverRead, spkt, serr, serverPeer>>
       \/ /\ serverConn[s] = "open" /\ serverPeer[s] = "open"
          /\ serr' = Set(serr, s, IoErr)
          /\ st' = Set(st, s, afterReadError(FALSE))
          /\ UNCHANGED <<serverRead, spkt, serverPeer>>
    /\ UNCHANGED <<relayRest, audit, ct, clientErrCh, serverErrCh, cpkt, cerr,
                   clientRead, serverWritten, clientWritten, clientSent, serverSent,
                   clientPeer>>

\* a packet of the backend written to the client twice
ServerWrite_Duplicate(s) ==
    /\ st[s] = "write"
    /\ \/ /\ clientWritten' = [clientWritten EXCEPT ![s] = @ \o <<spkt[s], spkt[s]>>]
          /\ st' = Set(st, s, "read")
          /\ UNCHANGED serr
       \/ /\ serr' = Set(serr, s, IF clientPeer[s] = "open" THEN IoErr ELSE ClosedErr)
          /\ st' = Set(st, s, "send")
          /\ UNCHANGED clientWritten
    /\ UNCHANGED <<relayRest, audit, ct, clientErrCh, serverErrCh, cpkt, spkt, cerr,
                   clientRead, serverWritten, serverRead, clientSent, serverSent,
                   clientPeer, serverPeer>>

\* auth.go:423-428: protocol.WritePacket(packet, clientConn)
ServerWrite(s) ==
    /\ st[s] = "write"
    /\ \/ /\ clientWritten' = Log(clientWritten, s, spkt[s])
          /\ st' = Set(st, s, "read")
          /\ UNCHANGED serr
       \/ /\ serr' = Set(serr, s, IF clientPeer[s] = "open" THEN IoErr ELSE ClosedErr)
          /\ st' = Set(st, s, "send")
          /\ UNCHANGED clientWritten
    /\ UNCHANGED <<relayRest, audit, ct, clientErrCh, serverErrCh, cpkt, spkt, cerr,
                   clientRead, serverWritten, serverRead, clientSent, serverSent,
                   clientPeer, serverPeer>>

\* auth.go:420, 426: serverErrCh <- err
ServerSend(s) ==
    /\ st[s] = "send"
    /\ CanSend(serverErrCh[s])
    /\ serverErrCh' = Set(serverErrCh, s, [serverErrCh[s] EXCEPT !.buf = Append(@, serr[s])])
    /\ serverSent' = Set(serverSent, s, serverSent[s] + 1)
    /\ st' = Set(st, s, "close")
    /\ UNCHANGED <<relayRest, audit, ct, clientErrCh, cpkt, spkt, cerr, serr,
                   clientRead, serverWritten, serverRead, clientWritten, clientSent,
                   clientPeer, serverPeer>>

\* auth.go:408-411: the deferred close(serverErrCh)
ServerClose(s) ==
    /\ st[s] = "close"
    /\ serverErrCh' = Set(serverErrCh, s, [serverErrCh[s] EXCEPT !.closed = TRUE, !.closes = @ + 1])
    /\ st' = Set(st, s, "done")
    /\ UNCHANGED <<relayRest, audit, ct, clientErrCh, cpkt, spkt, cerr, serr,
                   clientRead, serverWritten, serverRead, clientWritten,
                   clientSent, serverSent, clientPeer, serverPeer>>

(* --------------------------- specification ----------------------------- *)
HandleStep(s) ==
    \/ checkAccess(s)
    \/ GetRDSAuthToken(s)
    \/ GetAzureAccessToken(s)
    \/ connectReturned(s)
    \/ WriteOK(s)
    \/ OnSessionStart(s)
    \/ goClient(s)
    \/ goServer(s)
    \/ select(s)
    \/ OnSessionEnd(s)
    \/ Close(s)

ClientStep(s) ==
    \/ ClientRead(s)
    \/ OnQuery(s)
    \/ ClientWrite(s)
    \/ ClientSend(s)
    \/ ClientClose(s)

ServerStep(s) ==
    \/ ServerRead(s)
    \/ ServerWrite(s)
    \/ ServerSend(s)
    \/ ServerClose(s)

Next ==
    \/ HandleStep(MainSession)
    \/ ConnectStep(MainSession)
    \/ ClientStep(MainSession)
    \/ ServerStep(MainSession)
    \/ CtxCancel(MainSession)
    \/ Tick

\* one session through HandleConnection
Spec == Init /\ [][Next]_vars

\* the goroutines of a session are scheduled fairly; the peers and the
\* caller's context are not bound to act
FairSpec ==
    /\ Spec
    /\ WF_vars(HandleStep(MainSession))
    /\ WF_vars(ConnectStep(MainSession))
    /\ WF_vars(OnQuery(MainSession) \/ ClientSend(MainSession) \/ ClientClose(MainSession))
    /\ WF_vars(ServerSend(MainSession) \/ ServerClose(MainSession))

SessionEndsAfterError ==
    \A s \in {MainSession} : (clientSent[s] = 1 \/ serverSent[s] = 1) ~> pc[s] = "done"

\* one session for a self-hosted backend, whose peers send either body
InitRelay ==
    /\ dbKind = [s \in Sessions |-> "generic"]
    /\ tlsInsecure = [s \in Sessions |-> FALSE]
    /\ dbUser = [s \in Sessions |-> "alice"]
    /\ checker = [s \in Sessions |-> "allow"]
    /\ faultKinds = {"Other"}
    /\ bodies = Bodies
    /\ pc = [s \in Sessions |-> IF s = MainSession THEN "checkAccess" ELSE "idle"]
    /\ InitRest

\* the steps of a session for a self-hosted backend
NextRelay ==
    \/ checkAccess(MainSession)
    \/ GetTLSConfig(MainSession)
    \/ Connect(MainSession)
    \/ Handshake(MainSession)
    \/ connectReturned(MainSession)
    \/ WriteOK(MainSession)
    \/ OnSessionStart(MainSession)
    \/ goClient(MainSession)
    \/ goServer(MainSession)
    \/ select(MainSession)
    \/ OnSessionEnd(MainSession)
    \/ Close(MainSession)
    \/ ClientStep(MainSession)
    \/ ServerStep(MainSession)
    \/ CtxCancel(MainSession)

\* the relay of a session, with packets of different content
SpecRelay == InitRelay /\ [][NextRelay]_vars

\* a read of the closed backend socket: it returns at once
ServerReadClosed(s) == serverConn[s] = "closed" /\ ServerRead(s)

\* the session of SpecRelay with one packet body
InitFair ==
    /\ dbKind = [s \in Sessions |-> "generic"]
    /\ tlsInsecure = [s \in Sessions |-> FALSE]
    /\ dbUser = [s \in Sessions |-> "alice"]
    /\ checker = [s \in Sessions |-> "allow"]
    /\ faultKinds = {"Other"}
    /\ bodies = {"a"}
    /\ pc = [s \in Sessions |-> IF s = MainSession THEN "checkAccess" ELSE "idle"]
    /\ InitRest

\* the goroutines are scheduled fairly: HandleConnection goes on whenever it
\* can, a relay task goes on after a read has returned, a write returns, and
\* a read of the closed backend socket returns. The peers are not bound to
\* act: a read of an open connection can wait forever.
FairRelay ==
    /\ InitFair /\ [][NextRelay]_vars
    /\ WF_vars(HandleStep(MainSession) \/ ConnectStep(MainSession))
    /\ WF_vars(OnQuery(MainSession) \/ ClientWrite(MainSession)
                  \/ ClientSend(MainSession) \/ ClientClose(MainSession))
    /\ WF_vars(ServerWrite(MainSession) \/ ServerSend(MainSession)
                  \/ ServerClose(MainSession))
    /\ WF_vars(ServerReadClosed(MainSession))


(* --------------------------- SwitchWriter ------------------------------ *)
\* the engine and the sessions, left alone by the stream switches
coreVars == <<dbKind, tlsInsecure, dbUser, checker, faultKinds, bodies,
              mainVars, ctxDone, leaseVars, audit, relayVars>>
engineVars == <<coreVars, reviewVars>>

\* the chunks a caller passes to Write
Chunks == {<<b>> : b \in Bodies}

\* what On leaves in the buffer when it clears it after writing it out
bufferAfterOn_Cleared(buf) == <<>>

\* switch.go:156-162: On writes the buffer to W and leaves w.buffer as it is
bufferAfterOn(buf) == buf

\* switch.go:156-162: SwitchWriter.On, the write to W succeeding
SwitchWriterOn ==
    /\ swOnCalls < MaxOn
    /\ swOnCalls' = swOnCalls + 1
    /\ swOn' = TRUE
    /\ swW' = swW \o swBuffer
    /\ swBuffer' = bufferAfterOn(swBuffer)
    /\ UNCHANGED <<engineVars, readerVars, swGiven>>

\* switch.go:165-169: SwitchWriter.Off
SwitchWriterOff ==
    /\ swOn' = FALSE
    /\ UNCHANGED <<engineVars, readerVars, swBuffer, swW, swGiven, swOnCalls>>

\* switch.go:171-181: SwitchWriter.Write, the write to W succeeding
SwitchWriterWrite ==
    /\ Len(swGiven) < MaxPackets
    /\ \E p \in Chunks :
          /\ swGiven' = swGiven \o p
          /\ IF swOn
             THEN swW' = swW \o p /\ UNCHANGED swBuffer
             ELSE swBuffer' = swBuffer \o p /\ UNCHANGED swW
    /\ UNCHANGED <<engineVars, readerVars, swOn, swOnCalls>>

\* no session is running
InitIdle ==
    /\ dbKind = [s \in Sessions |-> "generic"]
    /\ tlsInsecure = [s \in Sessions |-> FALSE]
    /\ dbUser = [s \in Sessions |-> "alice"]
    /\ checker = [s \in Sessions |-> "allow"]
    /\ faultKinds = {"Other"}
    /\ bodies = {"a"}
    /\ pc = [s \in Sessions |-> "idle"]
    /\ InitRest

NextWriter == SwitchWriterOn \/ SwitchWriterOff \/ SwitchWriterWrite

\* a SwitchWriter under any sequence of On, Off and Write calls
SpecWriter == InitIdle /\ [][NextWriter]_vars

(* ---------------------------- BreakReader ------------------------------ *)
\* the chunks a read of the underlying reader yields
ReadChunks == {<<"a">>, <<"a", "b">>}
\* the sizes of the buffer p a caller passes to Read
BufferSizes == {Len(c) : c \in ReadChunks}

Min(a, b) == IF a < b THEN a ELSE b
\* switch.go:90, 124: copy(p, r.remaining): the bytes copied, the bytes left
Copied(cap, data) == SubSeq(data, 1, Min(cap, Len(data)))
Left(cap, data) == SubSeq(data, Min(cap, Len(data)) + 1, Len(data))

\* switch.go:45-51: r.Read(buf) returns in the goroutine of NewBreakReader:
\* a chunk, or an error (end of stream included), on which the goroutine
\* returns
BackgroundRead ==
    /\ brBg.pc = "read"
    /\ ~brR.failed
    /\ \/ /\ brR.count < MaxPackets
          /\ \E c \in ReadChunks : brBg' = [pc |-> "check", buf |-> c]
          /\ brR' = [brR EXCEPT !.count = @ + 1]
       \/ /\ brR' = [brR EXCEPT !.failed = TRUE]
          /\ brBg' = [pc |-> "done", buf |-> <<>>]
    /\ UNCHANGED <<engineVars, writerVars, brOn, brClosed, brRemaining, brRead,
                   brHelper, brResult>>

\* switch.go:53-55: the goroutine returns when closed is set
BackgroundCheck ==
    /\ brBg.pc = "check"
    /\ brBg' = IF brClosed THEN [pc |-> "done", buf |-> <<>>]
                           ELSE [brBg EXCEPT !.pc = "send"]
    /\ UNCHANGED <<engineVars, writerVars, brOn, brClosed, brRemaining, brR, brRead,
                   brHelper, brResult>>

\* what Read returns and when its call started
Result(data, fromIn, call) ==
    [data |-> data, fromIn |-> fromIn, startOff |-> call.startOff,
     startClosed |-> call.startClosed, onSeen |-> call.onSeen]

\* switch.go:87-110: Read is called with a buffer of cap bytes. Bytes left
\* over are returned at once; else the goroutine that reports r.on starts.
ReadCall ==
    /\ brRead.pc = "idle"
    /\ \E cap \in BufferSizes :
          LET call == [pc |-> "first", cap |-> cap, on |-> FALSE,
                       startOff |-> ~brOn, startClosed |-> brClosed, onSeen |-> FALSE]
          IN  IF Len(brRemaining) > 0
              THEN /\ brResult' = Result(Copied(cap, brRemaining), FALSE, call)
                   /\ brRemaining' = Left(cap, brRemaining)
                   /\ UNCHANGED <<brRead, brHelper>>
              ELSE /\ brRead' = call
                   /\ brHelper' = [pc |-> "start", val |-> FALSE]
                   /\ brResult' = NoResult
                   /\ UNCHANGED brRemaining
    /\ UNCHANGED <<engineVars, writerVars, brOn, brClosed, brR, brBg>>

\* switch.go:96-103: under the lock of r.cond, the goroutine of Read offers
\* the value of r.on on c, at its start and after every wake-up
HelperOffer ==
    /\ brHelper.pc \in {"start", "woken"}
    /\ brHelper' = [pc |-> "offer", val |-> brOn]
    /\ UNCHANGED <<engineVars, writerVars, brOn, brClosed, brRemaining, brR, brBg,
                   brRead, brResult>>

\* switch.go:112-120: Read receives r.on from c (on := <-c, on = <-c); the
\* goroutine goes to r.cond.Wait()
ReadOn ==
    /\ brRead.pc \in {"first", "loop"}
    /\ brHelper.pc = "offer"
    /\ brRead' = [brRead EXCEPT !.pc = "loop", !.on = brHelper.val]
    /\ brHelper' = [brHelper EXCEPT !.pc = "wait"]
    /\ UNCHANGED <<engineVars, writerVars, brOn, brClosed, brRemaining, brR, brBg,
                   brResult>>

\* switch.go:57, 122-127: with on true, Read receives the chunk the
\* goroutine of NewBreakReader sends on r.in, closes q and returns what fits
ReadReceive ==
    /\ brRead.pc = "loop"
    /\ brRead.on
    /\ brBg.pc = "send"
    /\ brResult' = Result(Copied(brRead.cap, brBg.buf), TRUE, brRead)
    /\ brRemaining' = Left(brRead.cap, brBg.buf)
    /\ brBg' = [pc |-> "read", buf |-> <<>>]
    /\ brRead' = NoRead
    /\ brHelper' = [pc |-> "none", val |-> FALSE]
    /\ UNCHANGED <<engineVars, writerVars, brOn, brClosed, brR>>

\* r.cond.Broadcast(): the goroutine of Read leaves r.cond.Wait()
Broadcast(h) == IF h.pc = "wait" THEN [h EXCEPT !.pc = "woken"] ELSE h

\* switch.go:72-77: BreakReader.On; the lock is free while the goroutine of
\* Read is not offering
BreakReaderOn ==
    /\ brHelper.pc # "offer"
    /\ brOn' = TRUE
    /\ brHelper' = Broadcast(brHelper)
    /\ brRead' = IF brRead.pc = "idle" THEN brRead ELSE [brRead EXCEPT !.onSeen = TRUE]
    /\ UNCHANGED <<engineVars, writerVars, brClosed, brRemaining, brR, brBg, brResult>>

\* switch.go:80-85: BreakReader.Off
BreakReaderOff ==
    /\ brHelper.pc # "offer"
    /\ brOn' = FALSE
    /\ brHelper' = Broadcast(brHelper)
    /\ UNCHANGED <<engineVars, writerVars, brClosed, brRemaining, brR, brBg, brRead,
                   brResult>>

\* switch.go:134-136: BreakReader.Close
BreakReaderClose ==
    /\ ~brClosed
    /\ brClosed' = TRUE
    /\ UNCHANGED <<engineVars, writerVars, brOn, brRemaining, brR, brBg, brRead,
                   brHelper, brResult>>

NextReader ==
    \/ BackgroundRead
    \/ BackgroundCheck
    \/ ReadCall
    \/ HelperOffer
    \/ ReadOn
    \/ ReadReceive
    \/ BreakReaderOn
    \/ BreakReaderOff
    \/ BreakReaderClose

\* a BreakReader with one caller of Read and any calls of On, Off and Close
SpecReader == InitIdle /\ [][NextReader]_vars

\* the goroutines go on whenever they can; the underlying reader and the
\* callers of On, Off, Close and Read are not bound to act
FairReader ==
    /\ SpecReader
    /\ WF_vars(BackgroundCheck)
    /\ WF_vars(HelperOffer)
    /\ WF_vars(ReadOn)
    /\ WF_vars(ReadReceive)

(* --------------------------- CheckExternal ----------------------------- *)
\* review.go:369-374
approved == "APPROVED"
changesRequested == "CHANGES_REQUESTED"

\* GitHub user names
Names == {"amy", "ben", "cat"}
\* Config.Admins is a list read from JSON: any order, repetitions included
AdminLists == UNION {[1..n -> Names] : n \in 0..MaxAdmins}
\* github.Review: the fields checkN reads
Reviews == [State : {approved, changesRequested}, Author : Names]
\* map[string]*github.Review
ReviewMaps == UNION {[D -> Reviews] : D \in SUBSET Names}

\* review.go:195-204: the admins in their order, the author left out
getAdminReviewers(a, au) == SelectSeq(a, LAMBDA v : v # au)

\* review.go:357-367: one count per entry of the list whose review is an
\* approval written by that entry
RECURSIVE checkN(_, _)
checkN(reviewers, rs) ==
    IF reviewers = <<>> THEN 0
    ELSE LET reviewer == Head(reviewers) IN
         (IF /\ reviewer \in DOMAIN rs
             /\ rs[reviewer].State = approved
             /\ rs[reviewer].Author = reviewer
          THEN 1 ELSE 0) + checkN(Tail(reviewers), rs)

\* review.go:228-237
CheckExternal ==
    /\ externalErr = Pending
    /\ externalErr' = IF checkN(getAdminReviewers(admins, author), reviews) > 1
                      THEN Nil
                      ELSE Err("BadParameter", "at least two approvals required")
    /\ UNCHANGED <<coreVars, switchVars, author, admins, reviews>>

\* a pull request of any author, under any admin list, with any reviews
InitReview ==
    /\ dbKind = [s \in Sessions |-> "generic"]
    /\ tlsInsecure = [s \in Sessions |-> FALSE]
    /\ dbUser = [s \in Sessions |-> "alice"]
    /\ checker = [s \in Sessions |-> "allow"]
    /\ faultKinds = {"Other"}
    /\ bodies = {"a"}
    /\ pc = [s \in Sessions |-> "idle"]
    /\ InitComponents
    /\ author \in Names
    /\ admins \in AdminLists
    /\ reviews \in ReviewMaps
    /\ externalErr = Pending

NextReview == CheckExternal

SpecReview == InitReview /\ [][NextReview]_vars

(* ------------------------------ claims --------------------------------- *)
Range(q) == {q[i] : i \in 1..Len(q)}
\* the position of the first e in q, 0 when there is none
IndexOf(q, e) == IF e \in Range(q) THEN CHOOSE i \in 1..Len(q) : q[i] = e /\ \A j \in 1..(i-1) : q[j] # e
                 ELSE 0
\* the number of audit events of a type
Count(q, ty) == Cardinality({i \in 1..Len(q) : q[i].type = ty})
\* the external calls connect makes for credentials, the lease and the
\* backend connection
ConnectCalls == {"GetTLSConfig", "GetRDSAuthToken", "AcquireSemaphore", "GetCloudSQLPassword",
                 "tlsDial", "GetAzureAccessToken", "Connect", "Connected", "CancelSemaphoreLease"}

\* C1: the OK reply is written only after connect has returned an established
\* backend connection (the connection is recorded before the reply in the
\* order of events), and never when connect returned an error.
C1_ReadyAfterConnect ==
    \A s \in Sessions :
        /\ okWritten[s] =>
              /\ connErr[s] = Nil
              /\ serverConn[s] # "none"
              /\ 0 < IndexOf(events[s], "Connected")
              /\ IndexOf(events[s], "Connected") < IndexOf(events[s], "WriteOK")
        /\ connErr[s] # Nil => ~okWritten[s] /\ "WriteOK" \notin Range(events[s])

\* the OK reply has been written on the Cloud SQL path
C1_Witness ==
    okWritten[MainSession] /\ dbKind[MainSession] = "cloudsql"

\* C2 as stated: whatever the outcome of HandleConnection, OnSessionStart has
\* been called exactly once when it returns.
C2_Original ==
    \A s \in Sessions : pc[s] = "done" => Count(audit[s], "SessionStart") = 1

\* C2 as amended: OnSessionStart is called at most once; when HandleConnection
\* has returned it has been called exactly once if authorization was denied or
\* the OK reply was written, and not at all otherwise (failure of the
\* auth-preference lookup, of connect, or of the OK reply).
C2_Amended ==
    \A s \in Sessions :
        /\ Count(audit[s], "SessionStart") <= 1
        /\ pc[s] = "done" =>
              LET denied == "CheckAccess" \in Range(events[s]) /\ checker[s] = "deny"
              IN  Count(audit[s], "SessionStart") = (IF denied \/ okWritten[s] THEN 1 ELSE 0)

\* a session that relayed has returned with its one session start event
C2_Witness ==
    /\ pc[MainSession] = "done"
    /\ okWritten[MainSession]
    /\ Count(audit[MainSession], "SessionStart") = 1

\* C3: when CheckAccess denies the session, OnSessionStart is called with the
\* denial error and HandleConnection returns an error; connect makes none of
\* its calls, no OK reply is written, no relay task starts and no session end
\* event is emitted.
C3_DenialStops ==
    \A s \in Sessions :
        ("CheckAccess" \in Range(events[s]) /\ checker[s] = "deny") =>
            /\ audit[s] = <<[type |-> "SessionStart", err |-> DenialError, query |-> ""]>>
            /\ pc[s] = "done"
            /\ ret[s] \notin {Nil, Pending}
            /\ Range(events[s]) \cap ConnectCalls = {}
            /\ ~okWritten[s]
            /\ ct[s] = "none" /\ st[s] = "none"
            /\ serverConn[s] = "none"

\* CheckAccess has denied a session
C3_Witness ==
    /\ "CheckAccess" \in Range(events[MainSession])
    /\ checker[MainSession] = "deny"
    /\ pc[MainSession] = "done"

SameSemaphore(s, t) == s # t /\ dbUser[s] = dbUser[t]

\* C4: two sessions of the same database and user never hold the lease at
\* the same time.
C4_LeasesDisjoint ==
    \A s, t \in Sessions : SameSemaphore(s, t) => ~(Holding(s) /\ Holding(t))

\* a session holds the lease after another session of the same user has
\* connected and released its own
C4_Witness ==
    \E s, t \in Sessions :
        /\ SameSemaphore(s, t)
        /\ "CancelSemaphoreLease" \in Range(events[s])
        /\ "Connected" \in Range(events[s])
        /\ Holding(t)

\* from the call of GetCloudSQLPassword to the return of client.Connect
InAttempt(s) == pc[s] \in {"PasswordWait", "tlsDial", "Connect", "Handshake"}

Rejected(p) == p.type \in {"ChangeUser", "Quit"}

\* C6: a re-authentication or termination request is never written to the
\* backend; it is the last packet the client task reads, the task goes to the
\* close of its channel with no error placed on it, and what has been written
\* to the backend is exactly the packets read before the request.
C6_RejectedNotForwarded ==
    \A s \in Sessions :
        /\ \A i \in 1..Len(serverWritten[s]) : ~Rejected(serverWritten[s][i])
        /\ \A i \in 1..Len(clientRead[s]) :
              Rejected(clientRead[s][i]) =>
                  /\ i = Len(clientRead[s])
                  /\ ct[s] \in {"close", "done"}
                  /\ cerr[s] = Nil /\ clientSent[s] = 0
                  /\ clientErrCh[s].buf = <<>>
                  /\ Len(serverWritten[s]) <= i - 1

\* the client task has ended on a termination request that followed a
\* forwarded packet
C6_Witness ==
    /\ ct[MainSession] = "done"
    /\ Len(clientRead[MainSession]) = 2
    /\ clientRead[MainSession][2].type = "Quit"
    /\ Len(serverWritten[MainSession]) = 1

\* a task that met an I/O failure of its own making: a broken transport,
\* not a write to a side that is closed
Injected(s) == cerr[s] = IoErr \/ serr[s] = IoErr
\* a relay task has read a normal close of its peer
PeerClosed(s) == clientPeer[s] = "closed" \/ serverPeer[s] = "closed"

\* C7 as stated: once a side has closed normally and no transport breaks,
\* neither relay task places an error on its channel, and HandleConnection
\* returns nil.
C7_Original ==
    \A s \in Sessions :
        (PeerClosed(s) /\ ~Injected(s)) =>
            /\ clientSent[s] = 0 /\ serverSent[s] = 0
            /\ pc[s] = "done" => ret[s] = Nil

\* C7 as amended: the task that reads a normal close places no error on its
\* channel and HandleConnection returns nil; the other task places an error
\* only for a failure of its own, which without a broken transport is the
\* write of a packet to the side that has closed.
C7_Amended ==
    \A s \in Sessions :
        /\ clientPeer[s] = "closed" => cerr[s] = Nil /\ clientSent[s] = 0
        /\ serverPeer[s] = "closed" => serr[s] = Nil /\ serverSent[s] = 0
        /\ (PeerClosed(s) /\ pc[s] = "done") => ret[s] = Nil
        /\ (PeerClosed(s) /\ ~Injected(s)) =>
              /\ clientSent[s] = 1 => cerr[s] = ClosedErr /\ serverPeer[s] = "closed"
              /\ serverSent[s] = 1 => serr[s] = ClosedErr /\ clientPeer[s] = "closed"

\* the client has closed normally, the session has ended with nil, and the
\* backend task has reported the write that failed on the closed client
C7_Witness ==
    /\ clientPeer[MainSession] = "closed"
    /\ ct[MainSession] = "done"
    /\ pc[MainSession] = "done"
    /\ serverSent[MainSession] = 1
    /\ ~Injected(MainSession)

\* C8: a relay task that meets an error other than a normal close places it
\* on its channel exactly once: the send never blocks, nothing is sent
\* without an error or twice, the task does no further I/O, and the value
\* placed lets the select of HandleConnection proceed.
C8_ErrorOnce ==
    \A s \in Sessions :
        /\ clientSent[s] = (IF cerr[s] # Nil /\ ct[s] \in {"close", "done"} THEN 1 ELSE 0)
        /\ serverSent[s] = (IF serr[s] # Nil /\ st[s] \in {"close", "done"} THEN 1 ELSE 0)
        /\ cerr[s] # Nil => ct[s] \in {"send", "close", "done"}
        /\ serr[s] # Nil => st[s] \in {"send", "close", "done"}
        /\ ct[s] = "send" => CanSend(clientErrCh[s]) /\ cerr[s] # Nil
        /\ st[s] = "send" => CanSend(serverErrCh[s]) /\ serr[s] # Nil
        /\ (pc[s] = "select" /\ clientSent[s] = 1) => Ready(clientErrCh[s])
        /\ (pc[s] = "select" /\ serverSent[s] = 1) => Ready(serverErrCh[s])

\* both relay tasks have ended, each on an error it placed on its channel
C8_Witness ==
    /\ ct[MainSession] = "done" /\ st[MainSession] = "done"
    /\ cerr[MainSession] = IoErr /\ serr[MainSession] = IoErr
    /\ clientSent[MainSession] = 1 /\ serverSent[MainSession] = 1

\* C9: HandleConnection returns an error exactly when it ends before a relay
\* task is started; once the relay tasks are started it returns nil.
C9_NilAfterRelay ==
    \A s \in Sessions :
        pc[s] = "done" => (ret[s] # Nil <=> (ct[s] = "none" /\ st[s] = "none"))

\* HandleConnection has returned nil after taking an I/O error from the
\* channel of the client task
C9_Witness ==
    /\ pc[MainSession] = "done"
    /\ ret[MainSession] = Nil
    /\ clientSent[MainSession] = 1
    /\ clientErrCh[MainSession].buf = <<>>

\* C10: the backend connection connect returns is closed exactly once, by
\* the time HandleConnection returns and not before it leaves.
C10_ClosedOnce ==
    \A s \in Sessions :
        /\ closeCount[s] <= 1
        /\ (pc[s] = "done" /\ serverConn[s] # "none") =>
              closeCount[s] = 1 /\ serverConn[s] = "closed"
        /\ pc[s] # "done" => closeCount[s] = 0 /\ serverConn[s] # "closed"
        /\ serverConn[s] = "none" => closeCount[s] = 0

\* HandleConnection has returned after a failed OK reply, the backend
\* connection closed
C10_Witness ==
    /\ pc[MainSession] = "done"
    /\ ~okWritten[MainSession]
    /\ closeCount[MainSession] = 1

(* C11: the session-end event and the relay tasks *)
\* a relay task that is reading or forwarding packets
Running(s) == ct[s] \in {"read", "OnQuery", "write"} \/ st[s] \in {"read", "write"}

\* a relay task that has left its loop: its signal is sent or its channel closed
ClientLeft(s) == ct[s] \in {"close", "done"}
ServerLeft(s) == st[s] \in {"close", "done"}

\* C11 as stated: at the moment OnSessionEnd is emitted, neither relay task
\* is still reading or forwarding packets
C11_Original ==
    [][\A s \in Sessions :
          (pc[s] = "OnSessionEnd" /\ pc'[s] = "Close") => ~Running(s)]_vars

\* C11: OnSessionEnd is emitted only after the first termination signal: when
\* the event is in the audit log, the context is cancelled or at least one
\* relay task has left its loop (the other one is not waited for)
C11_Amended ==
    \A s \in Sessions :
        Count(audit[s], "SessionEnd") > 0 => ctxDone[s] \/ ClientLeft(s) \/ ServerLeft(s)

\* the event is emitted after the client task ended, while the backend task
\* is still reading
C11_Witness ==
    \E s \in Sessions :
        /\ Count(audit[s], "SessionEnd") = 1
        /\ ~ctxDone[s]
        /\ ct[s] = "done"
        /\ st[s] = "read"

(* C12: the result of HandleConnection after a failed connect *)
\* C12: when connect fails with a limit-exceeded error HandleConnection
\* returns a limit-exceeded error with the message "try again later"; when
\* connect fails with any other error, it returns an error of another kind
C12_LimitExceededTranslated ==
    \A s \in Sessions :
        (pc[s] = "done" /\ connErr[s] # Nil) =>
            IF connErr[s].kind = "LimitExceeded"
            THEN ret[s] = Err("LimitExceeded", "try again later")
            ELSE ret[s] # Nil /\ ret[s] # Pending /\ ret[s].kind # "LimitExceeded"

\* connect was refused for rate limiting with the provider's own message,
\* and HandleConnection has returned
C12_Witness ==
    \E s \in Sessions :
        /\ pc[s] = "done"
        /\ connErr[s] = Err("LimitExceeded", "provider")
        /\ ret[s].msg = "try again later"

(* C13: the first termination signal ends the session *)
\* a termination signal of the relay phase has occurred
Signalled(s) == ct[s] = "done" \/ st[s] = "done" \/ ctxDone[s]

\* C13: once the relay phase has started, HandleConnection returns after the
\* client task has completed, the backend task has completed or the context
\* has been cancelled, whichever comes first
C13_FirstSignalEnds ==
    \A s \in {MainSession} : (pc[s] = "select" /\ Signalled(s)) ~> pc[s] = "done"

\* HandleConnection has returned on the completion of the client task
\* alone: the backend task is still reading
C13_Witness ==
    \E s \in Sessions :
        /\ pc[s] = "done"
        /\ ct[s] = "done"
        /\ st[s] = "read"
        /\ ~ctxDone[s]

Releases(s) == Cardinality({i \in 1..Len(events[s]) : events[s][i] = "CancelSemaphoreLease"})
\* the session's connect acquired the lease
Acquired(s) == "LeaseAcquired" \in Range(events[s])
\* connect is running and has not reached its deferred release
BeforeRelease(s) ==
    pc[s] \in {"GetTLSConfig", "makeConfig", "Acquire", "GetCloudSQLPassword",
               "PasswordWait", "tlsDial", "Connect", "Handshake", "CancelLease"}

\* C15: on the Cloud SQL path a connect that acquired the lease has called
\* CancelSemaphoreLease exactly once when it returns, on every return path
\* and not before client.Connect has returned or been given up; what
\* connect returns is decided by the handshake and the calls before it,
\* whether or not the release succeeded
C15_ReleasedOnce ==
    \A s \in Sessions :
        /\ BeforeRelease(s) => Releases(s) = 0
        /\ pc[s] = "connectReturned" => Releases(s) = (IF Acquired(s) THEN 1 ELSE 0)
        /\ (pc[s] = "connectReturned" /\ Acquired(s)) =>
               /\ connErr[s] = Nil <=> "Connected" \in Range(events[s])
               /\ connErr[s] = Nil <=> serverConn[s] = "open"

\* the handshake succeeded, the release failed (the lease is still held)
\* and connect has returned the connection
C15_Witness ==
    \E s \in Sessions :
        /\ pc[s] = "connectReturned"
        /\ Releases(s) = 1
        /\ \E l \in leases : l.holder = s
        /\ connErr[s] = Nil
        /\ serverConn[s] = "open"

(* C16: the login principal *)
\* C16: once client.Connect has been called, the user it was given is the
\* database user followed by "@" and the Azure server name for an Azure
\* backend ("alice@my-server" for alice), and the bare database user for
\* every other backend kind
C16_LoginPrincipal ==
    \A s \in Sessions :
        "Connect" \in Range(events[s]) =>
            /\ dbKind[s] # "azure" => loginUser[s] = dbUser[s]
            /\ (dbKind[s] = "azure" /\ dbUser[s] = "alice") => loginUser[s] = "alice@my-server"
            /\ (dbKind[s] = "azure" /\ dbUser[s] = "bob") => loginUser[s] = "bob@my-server"

\* client.Connect has been called for an Azure backend
C16_Witness ==
    \E s \in Sessions :
        /\ dbKind[s] = "azure"
        /\ "Connect" \in Range(events[s])
        /\ loginUser[s] = "alice@my-server"

(* C17: the query audit event *)
IsQuery(p) == p.type = "Query"
\* the statement texts of the Query packets in a sequence of packets
QueryTexts(q) == LET qs == SelectSeq(q, IsQuery) IN [i \in 1..Len(qs) |-> qs[i].bytes]
\* the statement texts of the OnQuery events, in order
AuditedTexts(s) == LET qs == SelectSeq(audit[s], IsQuery) IN [i \in 1..Len(qs) |-> qs[i].query]
\* q without its last element
Front(q) == SubSeq(q, 1, Len(q) - 1)

\* C17: the OnQuery events are, in order and one for one, the statements of
\* the Query packets read (the packet just read is audited in the next step
\* of the task), whether or not the write that follows succeeds; a Query
\* packet written to the backend has its OnQuery event in the log
C17_QueryAudited ==
    \A s \in Sessions :
        /\ AuditedTexts(s) = IF ct[s] = "OnQuery" THEN Front(QueryTexts(clientRead[s]))
                                                  ELSE QueryTexts(clientRead[s])
        /\ Len(QueryTexts(serverWritten[s])) <= Len(AuditedTexts(s))
        /\ QueryTexts(serverWritten[s]) =
               SubSeq(AuditedTexts(s), 1, Len(QueryTexts(serverWritten[s])))

\* two statements were read; the second one was audited and its write to the
\* backend failed
C17_Witness ==
    \E s \in Sessions :
        /\ ct[s] = "send"
        /\ QueryTexts(clientRead[s]) = <<"a", "b">>
        /\ AuditedTexts(s) = <<"a", "b">>
        /\ QueryTexts(serverWritten[s]) = <<"a">>

(* C18: session start and session end *)
SuccessStart == [type |-> "SessionStart", err |-> Nil, query |-> ""]
SessionEnd == [type |-> "SessionEnd", err |-> Nil, query |-> ""]

\* C18: a relay task is started only after the success session-start event;
\* OnSessionEnd is emitted at most once, only after the success
\* session-start event, and by the time HandleConnection returns exactly
\* once when that event was emitted; a session whose OK reply was not
\* written emits none
C18_StartThenEnd ==
    \A s \in Sessions :
        /\ (ct[s] # "none" \/ st[s] # "none") => SuccessStart \in Range(audit[s])
        /\ Count(audit[s], "SessionEnd") <= 1
        /\ SessionEnd \in Range(audit[s]) =>
               /\ SuccessStart \in Range(audit[s])
               /\ IndexOf(audit[s], SuccessStart) < IndexOf(audit[s], SessionEnd)
        /\ pc[s] = "done" =>
               (Count(audit[s], "SessionEnd") = 1 <=> SuccessStart \in Range(audit[s]))
        /\ ~okWritten[s] => Count(audit[s], "SessionEnd") = 0

\* a session has gone through its relay phase and returned
C18_Witness ==
    \E s \in Sessions :
        /\ pc[s] = "done"
        /\ okWritten[s]
        /\ IndexOf(audit[s], SuccessStart) = 1
        /\ Count(audit[s], "SessionEnd") = 1

(* C19: the relay tasks after HandleConnection has returned *)
\* HandleConnection has returned through the deferred close of the backend
\* connection
ReturnedAndClosed(s) == pc[s] = "done" /\ closeCount[s] = 1
ClientTaskOver(s) == ct[s] \in {"none", "done"}
ServerTaskOver(s) == st[s] \in {"none", "done"}

\* C19 as stated: after HandleConnection has returned and closed the backend
\* socket, both relay tasks eventually terminate, whatever the client does
C19_Original ==
    \A s \in {MainSession} :
        ReturnedAndClosed(s) ~> (ClientTaskOver(s) /\ ServerTaskOver(s))

\* C19, what holds after the return: the backend task terminates, and the
\* client task terminates once it is not waiting in its read of the client
C19_TasksEndUnlessReading ==
    \A s \in {MainSession} :
        /\ ReturnedAndClosed(s) ~> ServerTaskOver(s)
        /\ (ReturnedAndClosed(s) /\ ct[s] # "read") ~> ClientTaskOver(s)

\* HandleConnection has returned, the backend task is over, and the client
\* task waits in its read of a client that is still connected
C19_ClientTaskLeft ==
    \E s \in Sessions :
        /\ ReturnedAndClosed(s)
        /\ serverConn[s] = "closed"
        /\ st[s] = "done"
        /\ ct[s] = "read"
        /\ clientPeer[s] = "open"

(* C20: the completion channels *)
\* C20: each relay task sends at most one value on its channel and closes it
\* exactly once, as its last action (the channel is closed exactly when the
\* task is over); a task at its send finds the channel open and its buffer
\* free, HandleConnection having returned or not
C20_SendOnceCloseLast ==
    \A s \in Sessions :
        /\ clientSent[s] <= 1 /\ serverSent[s] <= 1
        /\ clientErrCh[s].closes = (IF ct[s] = "done" THEN 1 ELSE 0)
        /\ serverErrCh[s].closes = (IF st[s] = "done" THEN 1 ELSE 0)
        /\ clientErrCh[s].closed <=> ct[s] = "done"
        /\ serverErrCh[s].closed <=> st[s] = "done"
        /\ ct[s] = "send" =>
               ~clientErrCh[s].closed /\ clientSent[s] = 0 /\ CanSend(clientErrCh[s])
        /\ st[s] = "send" =>
               ~serverErrCh[s].closed /\ serverSent[s] = 0 /\ CanSend(serverErrCh[s])

\* the client task has sent its error and closed its channel, HandleConnection
\* has returned, and the backend task is at its send with nobody to receive
C20_Witness ==
    \E s \in Sessions :
        /\ pc[s] = "done"
        /\ clientSent[s] = 1
        /\ clientErrCh[s].closes = 1
        /\ st[s] = "send"

(* C21: a credential that cannot be obtained *)
\* the calls by which connect obtains the credential of the backend kind
CredentialCalls == {"GetTLSConfig", "GetRDSAuthToken", "AcquireSemaphore",
                    "GetCloudSQLPassword", "GetAzureAccessToken"}
\* the calls connect has made, the deferred release of the lease left out
CallsMade(s) ==
    LET made(c) == c \in ConnectCalls \ {"CancelSemaphoreLease", "Connected"}
    IN  SelectSeq(events[s], made)
\* the last call connect made was for a credential, and connect has an error
CredentialFailed(s) ==
    /\ connErr[s] # Nil
    /\ CallsMade(s) # <<>>
    /\ CallsMade(s)[Len(CallsMade(s))] \in CredentialCalls

\* C21: an error in connect ends it (nothing but the deferred release
\* follows), so after a failed credential call no TLS dial and no
\* client.Connect is made, no backend connection exists, the OK reply is not
\* written and HandleConnection returns an error; without the lease
\* GetCloudSQLPassword is not called
C21_NoAttemptWithoutCredential ==
    \A s \in Sessions :
        /\ connErr[s] # Nil =>
               /\ pc[s] \in {"CancelLease", "connectReturned", "done"}
               /\ ~okWritten[s]
               /\ serverConn[s] = "none"
               /\ pc[s] = "done" => ret[s] # Nil /\ ret[s] # Pending
        /\ CredentialFailed(s) =>
               /\ "Connect" \notin Range(events[s])
               /\ "tlsDial" \notin Range(events[s])
        /\ "GetCloudSQLPassword" \in Range(events[s]) => Acquired(s)

\* the lease was asked for and not acquired, and HandleConnection has
\* returned the error
C21_Witness ==
    \E s \in Sessions :
        /\ "AcquireSemaphore" \in Range(events[s])
        /\ ~Acquired(s)
        /\ CredentialFailed(s)
        /\ pc[s] = "done"
        /\ ret[s] # Nil

QueryEvents(s) == {i \in 1..Len(audit[s]) : audit[s][i].type = "Query"}

\* C23 as stated: every OnQuery event comes after the success session-start
\* event and, once OnSessionEnd has been emitted, before it
C23_Original ==
    \A s \in Sessions : \A i \in QueryEvents(s) :
        /\ SuccessStart \in Range(audit[s])
        /\ IndexOf(audit[s], SuccessStart) < i
        /\ SessionEnd \in Range(audit[s]) => i < IndexOf(audit[s], SessionEnd)

\* C23, what holds: every OnQuery event comes after the success
\* session-start event
C23_QueryAfterStart ==
    \A s \in Sessions : \A i \in QueryEvents(s) :
        /\ SuccessStart \in Range(audit[s])
        /\ IndexOf(audit[s], SuccessStart) < i

\* the backend ended the session while the client task held a statement: its
\* OnQuery event follows OnSessionEnd
C23_QueryAfterEnd ==
    \E s \in Sessions :
        /\ Len(audit[s]) = 3
        /\ audit[s][1] = SuccessStart
        /\ audit[s][2] = SessionEnd
        /\ audit[s][3].type = "Query"
        /\ ~ctxDone[s]

(* C24: order, loss and duplication in the relay *)
\* p is q, or q without its last element
AllButAtMostLast(p, q) ==
    /\ Len(q) - Len(p) \in {0, 1}
    /\ p = SubSeq(q, 1, Len(p))

\* C24: the packets written to the backend are, in order, the packets read
\* from the client, the last one at most left out; the packets written to
\* the client are likewise those read from the backend
C24_OrderPreserved ==
    \A s \in Sessions :
        /\ AllButAtMostLast(serverWritten[s], clientRead[s])
        /\ AllButAtMostLast(clientWritten[s], serverRead[s])

\* two packets of different content have crossed the relay in each direction
C24_Witness ==
    \E s \in Sessions :
        /\ Len(serverWritten[s]) = 2
        /\ serverWritten[s][1] # serverWritten[s][2]
        /\ clientWritten[s] = <<"b", "a">>

(* C25: the TLS socket to the Cloud SQL proxy port *)
\* connect has returned to HandleConnection
Returned(s) == pc[s] = "connectReturned"

\* C25 as stated: when connect returns, the TLS socket it opened is the
\* socket of the returned connection or is closed
C25_Original ==
    \A s \in Sessions : Returned(s) => tlsconn[s] \in {"none", "adopted", "closed"}

\* C25, what holds: a connect that returns a connection has handed the TLS
\* socket over to it, and with TLS mode insecure no such socket is opened
C25_HandedOverOnSuccess ==
    \A s \in Sessions :
        /\ (Returned(s) /\ connErr[s] = Nil) =>
               tlsconn[s] = (IF tlsInsecure[s] THEN "none" ELSE "adopted")
        /\ tlsInsecure[s] => tlsconn[s] = "none"

\* client.Connect failed after the TLS dial succeeded: connect has returned
\* the error and the TLS socket is still open
C25_SocketLeft ==
    \E s \in Sessions :
        /\ Returned(s)
        /\ ~tlsInsecure[s]
        /\ "Connect" \in Range(events[s])
        /\ connErr[s] # Nil
        /\ tlsconn[s] = "open"

(* C26: SwitchWriter delivers every byte once *)
\* p is a prefix of q
IsPrefix(p, q) == Len(p) <= Len(q) /\ p = SubSeq(q, 1, Len(p))

\* C26 as stated: the underlying writer has received the bytes passed to
\* Write, once each and in order: all of them followed by nothing else while
\* the writer is on, a prefix of them while it is off
C26_Original ==
    /\ swOn => swW = swGiven
    /\ ~swOn => IsPrefix(swW, swGiven)

\* C26, what holds: a writer that was turned on at most once since it was
\* made has delivered every byte once and in order, and the bytes held back
\* while it is off are the rest of them
C26_OnceUntilSecondOn ==
    swOnCalls <= 1 =>
        /\ IsPrefix(swW, swGiven)
        /\ swOn => swW = swGiven
        /\ (~swOn /\ swOnCalls = 0) => swW \o swBuffer = swGiven

\* one byte was written while the writer was off, and two calls of On have
\* written it to the underlying writer twice
C26_WrittenTwice ==
    /\ swGiven = <<"a">>
    /\ swW = <<"a", "a">>
    /\ swOnCalls = 2

(* C27: BreakReader.Off *)
\* the last Read call started with the reader off, and On was not called
\* before it returned
ReturnedWhileOff == brResult.startOff /\ ~brResult.onSeen

\* C27 as stated: a Read call that starts after Off has returned returns no
\* data until On is called
C27_Original == ReturnedWhileOff => brResult.data = <<>>

\* C27, what holds: a Read call that starts after Off and finds no bytes
\* left over receives nothing from the underlying reader until On is called
C27_NothingNewWhileOff ==
    /\ ReturnedWhileOff => ~brResult.fromIn
    /\ (brRead.pc = "loop" /\ brRead.startOff /\ ~brRead.onSeen) => ~brRead.on

\* a Read call made while the reader was off has returned the byte left
\* over from the chunk before
C27_LeftoverWhileOff ==
    /\ ReturnedWhileOff
    /\ ~brOn
    /\ brResult.data = <<"b">>
    /\ ~brResult.fromIn

(* C28: BreakReader.Close *)
\* C28 as stated, its first half: a Read call that starts after Close has
\* returned returns no bytes
C28_Original == brResult.startClosed => brResult.data = <<>>

\* C28, what holds: a chunk whose read returns after Close is dropped, the
\* goroutine returning instead of sending it
C28_LateChunkDropped ==
    [][(brBg.pc = "check" /\ brClosed) => brBg'.pc # "send"]_vars

\* Close was called while the goroutine was waiting to send a chunk, and a
\* Read call made afterwards has received that chunk
C28_ChunkAfterClose ==
    /\ brResult.startClosed
    /\ brResult.fromIn
    /\ brResult.data # <<>>

(* C29: BreakReader when the underlying reader fails *)
\* a Read call is in progress
ReadPending == brRead.pc # "idle"

\* C29 as stated: once the underlying reader has failed or ended, a Read
\* call in progress returns, unless the reader is turned off
C29_Original == (brR.failed /\ ReadPending) ~> (~ReadPending \/ ~brOn)

\* C29, what holds: after the failure the goroutine of NewBreakReader is
\* over and sends nothing any more, and a Read call returns only the bytes
\* left over
C29_NothingAfterFailure ==
    /\ brR.failed => brBg.pc = "done"
    /\ [][brR.failed => (brResult'.fromIn => brResult.fromIn)]_vars

\* the underlying reader has failed, the reader is on, and a Read call waits
\* in its select with nothing to receive
C29_ReadStuck ==
    /\ brR.failed
    /\ brOn
    /\ brRead.pc = "loop"
    /\ brRead.on
    /\ brHelper.pc = "wait"

(* C30: CheckExternal *)
\* the admins other than the author who approved with a review of their own
Approvers ==
    {a \in Range(admins) \ {author} :
        /\ a \in DOMAIN reviews
        /\ reviews[a].State = approved
        /\ reviews[a].Author = a}
NoRepeats(q) == \A i, j \in 1..Len(q) : q[i] = q[j] => i = j

\* C30 as stated: CheckExternal returns nil exactly when at least two
\* distinct admins other than the author have approved
C30_Original ==
    externalErr # Pending => (externalErr = Nil <=> Cardinality(Approvers) >= 2)

\* C30, what holds: two distinct approving admins are always enough, nil is
\* never returned without an approving admin, and on an admin list without
\* repetitions nil is returned exactly for two distinct approving admins
C30_TwoOnListWithoutRepeats ==
    externalErr # Pending =>
        /\ Cardinality(Approvers) >= 2 => externalErr = Nil
        /\ externalErr = Nil => Approvers # {}
        /\ NoRepeats(admins) => (externalErr = Nil <=> Cardinality(Approvers) >= 2)

\* CheckExternal returned nil on the approval of a single admin, who stands
\* twice in the admin list
C30_OneAdminCountedTwice ==
    /\ externalErr = Nil
    /\ Cardinality(Approvers) = 1
    /\ ~NoRepeats(admins)

====
